---- MODULE Spec2Model ----
(***************************************************************************)
(* Countdown timer (src/main.py): the CountdownTimer window, its two       *)
(* button handlers running on the UI thread, the background _tick threads  *)
(* they start, and the callbacks those threads schedule with after(0, ..). *)
(* A handler or callback of the UI thread is one step.  In a timing thread *)
(* every read or write of a field it shares with the UI thread (_running,  *)
(* _remaining) is a step of its own, so a handler can run between any two  *)
(* of them; widgets and _total_seconds are touched by the UI thread only.  *)
(***************************************************************************)
EXTENDS Integers, Sequences, FiniteSets, Bags

\* ---------------------------------------------------------------- bounds
\* timing threads that may be alive at once
MaxThreads == 2
\* callbacks scheduled with after(0, ...) and not yet run
MaxQueue == 2
\* "Done" message boxes open at once
MaxDialogs == 1
\* completion signals counted per countdown run
MaxSignals == 2
\* how far below zero _remaining is followed
MaxBelow == 2

\* ------------------------------------------------------- program constants
HourMax == 23
MinSecMax == 59
NumDots == 10
UrgentAt == 10

\* ------------------------------------------------------------- strings
\* A spinbox value is a sequence of one-character strings.
Digits == <<"0", "1", "2", "3", "4", "5", "6", "7", "8", "9">>

IsDigit(c) == \E i \in 1..10 : Digits[i] = c

DigitVal(c) == (CHOOSE i \in 1..10 : Digits[i] = c) - 1

RECURSIVE LStrip(_)
LStrip(str) ==
    IF str # <<>> /\ Head(str) = " " THEN LStrip(Tail(str)) ELSE str

RECURSIVE RStrip(_)
RStrip(str) ==
    IF str # <<>> /\ str[Len(str)] = " "
    THEN RStrip(SubSeq(str, 1, Len(str) - 1))
    ELSE str

RECURSIVE DigitsValue(_)
DigitsValue(ds) ==
    IF ds = <<>> THEN 0
    ELSE 10 * DigitsValue(SubSeq(ds, 1, Len(ds) - 1)) + DigitVal(ds[Len(ds)])

\* Python int(str): surrounding blanks ignored, an optional sign, then one
\* or more decimal digits; anything else raises ValueError (ok = FALSE).
PyInt(str) ==
    LET t    == RStrip(LStrip(str))
        sgn  == t # <<>> /\ Head(t) \in {"+", "-"}
        body == IF sgn THEN Tail(t) ELSE t
        good == body # <<>> /\ \A i \in 1..Len(body) : IsDigit(body[i])
    IN  IF good
        THEN [ok |-> TRUE,
              val |-> IF sgn /\ Head(t) = "-" THEN 0 - DigitsValue(body)
                      ELSE DigitsValue(body)]
        ELSE [ok |-> FALSE, val |-> 0]

\* int(x_str or 0): the empty string is falsy, so int(0) = 0 is taken.
IntOrZero(str) == IF str = <<>> THEN [ok |-> TRUE, val |-> 0] ELSE PyInt(str)

Max(a, b) == IF a >= b THEN a ELSE b

Min(a, b) == IF a <= b THEN a ELSE b

Clamp(v, hi) == Max(0, Min(v, hi))

\* _parse_time with a try block around each conversion
ParseTimeFieldwise(h_str, m_str, s_str) ==
    LET h == IntOrZero(h_str)
        m == IntOrZero(m_str)
        s == IntOrZero(s_str)
    IN  (IF h.ok THEN Clamp(h.val, HourMax) * 3600 ELSE 0)
        + (IF m.ok THEN Clamp(m.val, MinSecMax) * 60 ELSE 0)
        + (IF s.ok THEN Clamp(s.val, MinSecMax) ELSE 0)

\* _parse_time: one try block around the three conversions; a ValueError
\* in any of them makes the whole result 0.
ParseTime(h_str, m_str, s_str) ==
    LET h == IntOrZero(h_str)
        m == IntOrZero(m_str)
        s == IntOrZero(s_str)
    IN  IF h.ok /\ m.ok /\ s.ok
        THEN Clamp(h.val, HourMax) * 3600 + Clamp(m.val, MinSecMax) * 60
             + Clamp(s.val, MinSecMax)
        ELSE 0

\* _fmt: divmod(total, 3600), divmod(rem, 60) (floor division), the three
\* numbers that are then printed zero-padded.
Fmt(secs) ==
    LET h   == secs \div 3600
        rem == secs % 3600
    IN  <<h, rem \div 60, rem % 60>>

\* rounding of num/den for den > 0 that sends every tie upwards
RoundHalfUp(num, den) == (2 * num + den) \div (2 * den)

\* Python round() of num/den for den > 0: nearest integer, ties to even.
RoundHalfEven(num, den) ==
    LET q == num \div den
        r == num % den
    IN  IF 2 * r < den THEN q
        ELSE IF 2 * r > den THEN q + 1
        ELSE IF q % 2 = 0 THEN q ELSE q + 1

\* _update_dots: the number of lit dots.
Lit(rem, tot) == IF tot = 0 THEN 0 ELSE RoundHalfEven(rem * NumDots, tot)


\* ------------------------------------------------------------- the state
VARIABLES
    total,      \* self._total_seconds
    remaining,  \* self._remaining
    running,    \* self._running
    var_h,      \* self._var_h, the hours spinbox
    var_m,      \* self._var_m
    var_s,      \* self._var_s
    ui_pc,      \* where the UI thread is: "loop" is the Tk event loop
    threads,    \* the bag of running _tick threads, each [pc, tmp]
    queue,      \* callbacks scheduled with after(0, ...), oldest first
    dialogs,    \* open "Done" message boxes
    disp,       \* what the widgets show
    status,     \* history: Idle / Running / Paused / Finished
    signals,    \* history: completion signals of the current countdown run
    hitZero,    \* history: the current run was decremented to 0 while running
    mark        \* history: <<remaining at the last full second>> while the
                \* timer has been running undisturbed since, else << >>

vars == <<total, remaining, running, var_h, var_m, var_s, ui_pc,
          threads, queue, dialogs, disp, status, signals, hitZero, mark>>

timerVars == <<total, remaining, running>>

fieldVars == <<var_h, var_m, var_s>>

histVars == <<status, signals, hitZero, mark>>

\* A _tick thread is its position and the value it loaded at line 256;
\* threads is the bag of the threads that have not returned.
TickThread(pc, tmp) == [pc |-> pc, tmp |-> tmp]

AliveCount == BagCardinality(threads)

Zero2 == <<"0", "0">>

\* _reset_display
IdleDisplay ==
    [text |-> <<0, 0, 0>>, fg |-> "TEXT", msg |-> "Set a time and press Start",
     btn |-> "Start", lit |-> 0]

\* values the user types into a spinbox while a countdown can run
FieldsH == {Zero2}

FieldsM == {Zero2}

FieldsS == {Zero2, <<"2">>}

\* __init__ (lines 60-76) and _build_ui (lines 92-94)
Init ==
    /\ total = 0
    /\ remaining = 0
    /\ running = FALSE
    /\ var_h = Zero2
    /\ var_m = Zero2
    /\ var_s = Zero2
    /\ ui_pc = "loop"
    /\ threads = EmptyBag
    /\ queue = <<>>
    /\ dialogs = 0
    /\ disp = IdleDisplay
    /\ status = "Idle"
    /\ signals = 0
    /\ hitZero = FALSE
    /\ mark = <<>>

\* The UI thread is in the event loop and no message box holds the grab.
UserMayAct == ui_pc = "loop" /\ dialogs = 0

\* ------------------------------------------------------ the user, UI thread
\* The user types into the spinboxes; keystrokes are followed while the
\* timer is stopped, when _on_start_pause can read the spinboxes (line 220).
EditFields ==
    /\ UserMayAct
    /\ ~running
    /\ \E h \in FieldsH, m \in FieldsM, s \in FieldsS :
          /\ <<h, m, s>> # <<var_h, var_m, var_s>>
          /\ var_h' = h
          /\ var_m' = m
          /\ var_s' = s
    /\ UNCHANGED <<timerVars, ui_pc, threads, queue, dialogs, disp, histVars>>

\* a start that creates no thread
SpawnNothing == threads' = threads

\* lines 237-238: a new _tick thread at the head of its loop
Spawn == threads' = threads (+) SetToBag({TickThread("t251", 0)})

\* lines 233-236
RunningDisplay == [disp EXCEPT !.btn = "Pause", !.msg = "Running",
                               !.fg = "TEXT"]

\* _on_start_pause while _running: lines 212-216
Pause ==
    /\ UserMayAct
    /\ running
    /\ running' = FALSE
    /\ disp' = [disp EXCEPT !.btn = "Resume", !.msg = "Paused"]
    /\ status' = "Paused"
    /\ mark' = <<>>
    /\ UNCHANGED <<total, remaining, fieldVars, ui_pc, threads, queue,
                   dialogs, signals, hitZero>>

\* _on_start_pause, not running, _remaining == 0, the spinboxes give 0:
\* lines 218-228; the warning box opens and the handler waits in it
NoTimeSet ==
    /\ UserMayAct
    /\ ~running
    /\ remaining = 0
    /\ ParseTime(var_h, var_m, var_s) = 0
    /\ ui_pc' = "sp224"
    /\ UNCHANGED <<timerVars, fieldVars, threads, queue, dialogs, disp,
                   histVars>>

\* The warning box is acknowledged and the handler returns (line 228).
DismissWarning ==
    /\ ui_pc = "sp224"
    /\ dialogs = 0
    /\ ui_pc' = "loop"
    /\ UNCHANGED <<timerVars, fieldVars, threads, queue, dialogs, disp,
                   histVars>>

\* _on_start_pause, not running, _remaining == 0, a fresh start:
\* lines 218-238
FreshStart ==
    /\ UserMayAct
    /\ ~running
    /\ remaining = 0
    /\ ParseTime(var_h, var_m, var_s) # 0
    /\ AliveCount < MaxThreads
    /\ total' = ParseTime(var_h, var_m, var_s)
    /\ remaining' = total'
    /\ running' = TRUE
    /\ disp' = RunningDisplay
    /\ Spawn
    /\ status' = "Running"
    /\ signals' = 0
    /\ hitZero' = FALSE
    /\ mark' = <<>>
    /\ UNCHANGED <<fieldVars, ui_pc, queue, dialogs>>

\* a resume that takes the remaining time as the new total
ResumeReloading ==
    /\ UserMayAct
    /\ ~running
    /\ remaining # 0
    /\ AliveCount < MaxThreads
    /\ total' = remaining
    /\ running' = TRUE
    /\ disp' = RunningDisplay
    /\ Spawn
    /\ status' = "Running"
    /\ mark' = <<>>
    /\ UNCHANGED <<remaining, fieldVars, ui_pc, queue, dialogs, signals,
                   hitZero>>

\* _on_start_pause, not running, _remaining # 0, a resume: lines 218,
\* 232-238
Resume ==
    /\ UserMayAct
    /\ ~running
    /\ remaining # 0
    /\ AliveCount < MaxThreads
    /\ running' = TRUE
    /\ disp' = RunningDisplay
    /\ Spawn
    /\ status' = "Running"
    /\ mark' = <<>>
    /\ UNCHANGED <<total, remaining, fieldVars, ui_pc, queue, dialogs,
                   signals, hitZero>>

\* _on_reset, lines 240-247
Reset ==
    /\ UserMayAct
    /\ running' = FALSE
    /\ remaining' = 0
    /\ total' = 0
    /\ var_h' = Zero2
    /\ var_m' = Zero2
    /\ var_s' = Zero2
    /\ disp' = IdleDisplay
    /\ status' = "Idle"
    /\ signals' = 0
    /\ hitZero' = FALSE
    /\ mark' = <<>>
    /\ UNCHANGED <<ui_pc, threads, queue, dialogs>>

\* ------------------------------------- the steps of a _tick thread t
\* thread t moves to pc, or returns when pc is "none"
Goto(t, pc, tmp) ==
    threads' = IF pc = "none"
               THEN threads (-) SetToBag({t})
               ELSE (threads (-) SetToBag({t}))
                    (+) SetToBag({TickThread(pc, tmp)})

\* line 251, left operand: self._running
LoopReadRunning ==
    \E t \in BagToSet(threads) :
        /\ t.pc = "t251"
        /\ Goto(t, IF running THEN "t251b" ELSE "t258", 0)
        /\ UNCHANGED <<timerVars, fieldVars, ui_pc, queue, dialogs, disp,
                       histVars>>

\* line 251, right operand: self._remaining > 0
LoopReadRemaining ==
    \E t \in BagToSet(threads) :
        /\ t.pc = "t251b"
        /\ Goto(t, IF remaining > 0 THEN "t253" ELSE "t258", 0)
        /\ UNCHANGED <<timerVars, fieldVars, ui_pc, queue, dialogs, disp,
                       histVars>>

\* line 253: after(0, self._refresh_ui, self._remaining); the thread then
\* enters time.sleep(1) (line 254)
ScheduleRefresh ==
    \E t \in BagToSet(threads) :
        /\ t.pc = "t253"
        /\ Len(queue) < MaxQueue
        /\ queue' = Append(queue, [cb |-> "refresh", arg |-> remaining])
        /\ Goto(t, "t254", 0)
        /\ UNCHANGED <<timerVars, fieldVars, ui_pc, dialogs, disp, histVars>>

\* lines 254-255: the second has passed, sleep returns; if self._running
WakeReadRunning ==
    \E t \in BagToSet(threads) :
        /\ t.pc = "t254"
        /\ Goto(t, IF running THEN "t256" ELSE "t251", 0)
        /\ UNCHANGED <<timerVars, fieldVars, ui_pc, queue, dialogs, disp,
                       histVars>>

\* line 256, the load of self._remaining -= 1
DecrementLoad ==
    \E t \in BagToSet(threads) :
        /\ t.pc = "t256"
        /\ Goto(t, "t256w", remaining)
        /\ UNCHANGED <<timerVars, fieldVars, ui_pc, queue, dialogs, disp,
                       histVars>>

\* line 256, the store of self._remaining -= 1
DecrementStore ==
    \E t \in BagToSet(threads) :
        /\ t.pc = "t256w"
        /\ t.tmp - 1 >= 0 - MaxBelow
        /\ remaining' = t.tmp - 1
        /\ hitZero' = (hitZero \/ (running /\ remaining' = 0))
        /\ Goto(t, "t251", 0)
        /\ UNCHANGED <<total, running, fieldVars, ui_pc, queue, dialogs, disp,
                       status, signals, mark>>

\* line 258: if self._running; the thread returns when it is False
ExitReadRunning ==
    \E t \in BagToSet(threads) :
        /\ t.pc = "t258"
        /\ Goto(t, IF running THEN "t259" ELSE "none", 0)
        /\ UNCHANGED <<timerVars, fieldVars, ui_pc, queue, dialogs, disp,
                       histVars>>

\* line 259; the timer becomes Finished when the store ends a running
\* countdown, a store that finds _running already False changes nothing
FinishStore ==
    \E t \in BagToSet(threads) :
        /\ t.pc = "t259"
        /\ running' = FALSE
        /\ status' = IF running THEN "Finished" ELSE status
        /\ Goto(t, "t260", 0)
        /\ UNCHANGED <<total, remaining, fieldVars, ui_pc, queue, dialogs, disp,
                       signals, hitZero, mark>>

\* line 260: after(0, self._on_finished), then the thread returns
ScheduleFinished ==
    \E t \in BagToSet(threads) :
        /\ t.pc = "t260"
        /\ Len(queue) < MaxQueue
        /\ queue' = Append(queue, [cb |-> "finished", arg |-> 0])
        /\ signals' = Min(signals + 1, MaxSignals)
        /\ Goto(t, "none", 0)
        /\ UNCHANGED <<timerVars, fieldVars, ui_pc, dialogs, disp, status,
                       hitZero, mark>>

\* --------------------------------------- scheduled callbacks, UI thread
\* The event loop runs, also nested inside an open message box.
LoopRuns == ui_pc \in {"loop", "sp224"}

\* _refresh_ui(remaining), lines 262-270
RefreshUi ==
    /\ LoopRuns
    /\ queue # <<>>
    /\ Head(queue).cb = "refresh"
    /\ LET r == Head(queue).arg
           d == [disp EXCEPT !.text = Fmt(r), !.lit = Lit(r, total)]
       IN  disp' = IF r <= UrgentAt
                   THEN [d EXCEPT !.fg = "ACCENT3", !.msg = "Hurry"]
                   ELSE d
    /\ queue' = Tail(queue)
    /\ UNCHANGED <<timerVars, fieldVars, ui_pc, threads, dialogs,
                   histVars>>

\* _on_finished, lines 272-277; the "Done" box stays open
OnFinished ==
    /\ LoopRuns
    /\ queue # <<>>
    /\ Head(queue).cb = "finished"
    /\ dialogs < MaxDialogs
    /\ disp' = [text |-> <<0, 0, 0>>, fg |-> "ACCENT2",
                msg |-> "Timer completed", btn |-> "Start", lit |-> 0]
    /\ dialogs' = dialogs + 1
    /\ queue' = Tail(queue)
    /\ UNCHANGED <<timerVars, fieldVars, ui_pc, threads, histVars>>

\* The "Done" box is acknowledged; _on_finished returns.
DismissDone ==
    /\ dialogs > 0
    /\ dialogs' = dialogs - 1
    /\ UNCHANGED <<timerVars, fieldVars, ui_pc, threads, queue,
                   disp, histVars>>

\* ------------------------------------------------------ the specification
UiStep ==
    \/ EditFields
    \/ Pause
    \/ NoTimeSet
    \/ DismissWarning
    \/ FreshStart
    \/ Resume
    \/ Reset
    \/ RefreshUi
    \/ OnFinished
    \/ DismissDone

TickStep ==
    \/ LoopReadRunning
    \/ LoopReadRemaining
    \/ ScheduleRefresh
    \/ WakeReadRunning
    \/ DecrementLoad
    \/ DecrementStore
    \/ ExitReadRunning
    \/ FinishStore
    \/ ScheduleFinished

Next == UiStep \/ TickStep

Spec == Init /\ [][Next]_vars


\* ------------------------------------------- the handlers on typed input
\* Spinbox contents a user can type, each with what it denotes: kind "int"
\* is a decimal number a human reads off the text, "empty" the empty field,
\* "bad" a text that is not a whole number.
SamplesH ==
    { [str |-> <<>>,                kind |-> "empty", val |-> 0],
      [str |-> <<"0", "0">>,        kind |-> "int",   val |-> 0],
      [str |-> <<"0", "1">>,        kind |-> "int",   val |-> 1],
      [str |-> <<"2", "3">>,        kind |-> "int",   val |-> 23],
      [str |-> <<"2", "4">>,        kind |-> "int",   val |-> 24],
      [str |-> <<"-", "1">>,        kind |-> "int",   val |-> -1],
      [str |-> <<" ", "7">>,        kind |-> "int",   val |-> 7],
      [str |-> <<"a", "b">>,        kind |-> "bad",   val |-> 0] }

SamplesM ==
    { [str |-> <<>>,                kind |-> "empty", val |-> 0],
      [str |-> <<"0", "0">>,        kind |-> "int",   val |-> 0],
      [str |-> <<"0", "5">>,        kind |-> "int",   val |-> 5],
      [str |-> <<"5", "9">>,        kind |-> "int",   val |-> 59],
      [str |-> <<"6", "0">>,        kind |-> "int",   val |-> 60],
      [str |-> <<"x">>,             kind |-> "bad",   val |-> 0] }

SamplesS ==
    { [str |-> <<>>,                kind |-> "empty", val |-> 0],
      [str |-> <<"0", "0">>,        kind |-> "int",   val |-> 0],
      [str |-> <<"3", "0">>,        kind |-> "int",   val |-> 30],
      [str |-> <<"5", "9">>,        kind |-> "int",   val |-> 59],
      [str |-> <<"9", "9">>,        kind |-> "int",   val |-> 99],
      [str |-> <<"-", "5">>,        kind |-> "int",   val |-> -5],
      [str |-> <<"+", "3">>,        kind |-> "int",   val |-> 3],
      [str |-> <<"1", ".", "5">>,   kind |-> "bad",   val |-> 0] }

Strs(samples) == {e.str : e \in samples}

\* The window as constructed, with whatever the user has typed.
ParseInit ==
    /\ var_h \in Strs(SamplesH)
    /\ var_m \in Strs(SamplesM)
    /\ var_s \in Strs(SamplesS)
    /\ total = 0
    /\ remaining = 0
    /\ running = FALSE
    /\ ui_pc = "loop"
    /\ threads = EmptyBag
    /\ queue = <<>>
    /\ dialogs = 0
    /\ disp = IdleDisplay
    /\ status = "Idle"
    /\ signals = 0
    /\ hitZero = FALSE
    /\ mark = <<>>

\* The user retypes the spinboxes of the idle timer.
TypeFields ==
    /\ UserMayAct
    /\ status = "Idle"
    /\ var_h' \in Strs(SamplesH)
    /\ var_m' \in Strs(SamplesM)
    /\ var_s' \in Strs(SamplesS)
    /\ <<var_h', var_m', var_s'>> # <<var_h, var_m, var_s>>
    /\ UNCHANGED <<timerVars, ui_pc, threads, queue, dialogs, disp, histVars>>

\* The button handlers alone: no timing thread is scheduled before the
\* handler returns.
ParseNext ==
    \/ TypeFields
    \/ NoTimeSet
    \/ DismissWarning
    \/ FreshStart
    \/ Pause
    \/ Resume
    \/ Reset

ParseSpec == ParseInit /\ [][ParseNext]_vars


\* ================================================================ claims
\* One press of the start/pause button, whichever branch it takes.
StartPauseHandler == Pause \/ NoTimeSet \/ FreshStart \/ Resume

\* A timing thread takes the completion branch (lines 259-260).
Completing == FinishStore \/ ScheduleFinished

\* C1: in every reachable state 0 <= remaining <= total; remaining is
\* never negative.
C1_RemainingWithinTotal == 0 <= remaining /\ remaining <= total

\* C2: at most one timing thread is alive at any moment.
C2_AtMostOneThread == AliveCount <= 1

\* C3: once pause has completed, remaining keeps its value for as long as
\* the timer stays paused, whatever the timing threads do.
C3_PauseFreezesRemaining ==
    [][(status = "Paused" /\ status' = "Paused") => remaining' = remaining]_vars

\* C4: after reset and until the next start the timer is idle with
\* running = False and remaining = total = 0.
C4_ResetStaysIdle ==
    status = "Idle" => (~running /\ remaining = 0 /\ total = 0)

\* C5: one countdown run fires the completion signal at most once.
C5_CompletionAtMostOnce == signals <= 1

\* C6: a countdown decremented to 0 while running is never left without
\* its completion signal: once no timing thread is left to fire it, it has
\* been fired and the timer is Finished.
C6_ZeroIsSignalled ==
    (hitZero /\ AliveCount = 0) => (signals >= 1 /\ status = "Finished")

\* C7: whenever a timing thread sets running to False and fires the
\* completion signal, remaining = 0 at that moment.
C7_CompletionAtZero == [][Completing => remaining = 0]_vars

\* C8: pressing start while the timer is Idle, with inputs that give a
\* total > 0, sets remaining = total = that total, sets the status to
\* Running and starts a timing thread.
C8_StartFromIdle ==
    [][(status = "Idle" /\ StartPauseHandler
            /\ ParseTime(var_h, var_m, var_s) > 0)
        => (/\ total' = ParseTime(var_h, var_m, var_s)
            /\ remaining' = total'
            /\ running'
            /\ status' = "Running"
            /\ BagCardinality(threads') = AliveCount + 1)]_vars

\* C9: pressing start when the inputs resolve to a total of 0 opens the
\* "no time set" warning and changes neither total, remaining, running nor
\* the timing threads.
C9_NoTimeSetChangesNothing ==
    [][(status = "Idle" /\ StartPauseHandler
            /\ ParseTime(var_h, var_m, var_s) = 0)
        => (ui_pc' = "sp224" /\ UNCHANGED <<timerVars, threads>>)]_vars

\* What a typed field denotes for the configured total.
C10_Entry(samples, str) == CHOOSE e \in samples : e.str = str

C10_InRange(v, hi) == IF v < 0 THEN 0 ELSE IF v > hi THEN hi ELSE v

C10_Part(samples, str, hi) ==
    LET e == C10_Entry(samples, str)
    IN  IF e.kind = "int" THEN C10_InRange(e.val, hi) ELSE 0

C10_FieldwiseTotal ==
    C10_Part(SamplesH, var_h, 23) * 3600 + C10_Part(SamplesM, var_m, 59) * 60
    + C10_Part(SamplesS, var_s, 59)

C10_AnyBad ==
    \/ C10_Entry(SamplesH, var_h).kind = "bad"
    \/ C10_Entry(SamplesM, var_m).kind = "bad"
    \/ C10_Entry(SamplesS, var_s).kind = "bad"

\* C10 as stated: the configured total is h*3600+m*60+s with every field
\* normalised on its own, a non-numeric field counting as 0 for that field
\* only.
C10_FieldsIndependent ==
    [][/\ FreshStart => total' = C10_FieldwiseTotal
       /\ NoTimeSet => C10_FieldwiseTotal = 0]_vars

\* C10 as amended: numeric fields are clamped and an empty field counts as
\* 0, each on its own; one non-numeric field makes the whole total 0.
C10_BadFieldZeroesTotal ==
    [][/\ FreshStart => total' = (IF C10_AnyBad THEN 0 ELSE C10_FieldwiseTotal)
       /\ NoTimeSet => (C10_AnyBad \/ C10_FieldwiseTotal = 0)]_vars

\* The warning is open because of one non-numeric field, next to a field
\* that alone would give five minutes.
C10_Witness ==
    /\ ui_pc = "sp224"
    /\ var_h = <<"a", "b">>
    /\ var_m = <<"0", "5">>

\* C11: a start/pause toggle pressed while Paused is a resume: it sets the
\* status to Running, keeps remaining as it was at the pause and leaves
\* total unchanged.
C11_ResumeKeepsRemaining ==
    [][(status = "Paused" /\ StartPauseHandler)
        => (/\ status' = "Running"
            /\ remaining' = remaining
            /\ total' = total)]_vars

\* ------------------------------------------ starting again after a reset
\* The start button pressed on the idle timer (a fresh start from Idle).
StartFromIdle == status = "Idle" /\ FreshStart

\* The user only types, starts from Idle and resets; the timing threads and
\* the callbacks run as they do.
RestartNext ==
    \/ EditFields
    \/ StartFromIdle
    \/ Reset
    \/ RefreshUi
    \/ OnFinished
    \/ DismissDone
    \/ TickStep

RestartSpec == Init /\ [][RestartNext]_vars

\* C12: a countdown started from Idle and then left alone ends Finished
\* with remaining = 0 and its completion signalled exactly once: when no
\* timing thread is left after the last start (total > 0 since then), that
\* is the state the timer is in.
C12_CountdownCompletesOnce ==
    (total > 0 /\ AliveCount = 0)
        => (status = "Finished" /\ remaining = 0 /\ signals = 1)

DotsM == {Zero2, <<"2">>}

DotsS == {Zero2, <<"1">>, <<"2">>, <<"3">>, <<"4">>, <<"8">>}

\* What an undisturbed countdown of tot seconds shows when rem seconds are
\* left and the refresh for rem has not run yet: the widgets as the start
\* left them when rem = tot, as the refresh for rem + 1 left them otherwise.
DotsShown(rem, tot) ==
    IF rem = tot
    THEN [IdleDisplay EXCEPT !.btn = "Pause", !.msg = "Running"]
    ELSE [text |-> Fmt(rem + 1),
          fg   |-> IF rem + 1 <= UrgentAt THEN "ACCENT3" ELSE "TEXT",
          msg  |-> IF rem + 1 <= UrgentAt THEN "Hurry" ELSE "Running",
          btn  |-> "Pause",
          lit  |-> Lit(rem + 1, tot)]

\* A countdown of the typed duration has rem seconds left, its thread has
\* scheduled the refresh for rem and sleeps (line 254); or, with nothing
\* typed, a reset has come between the loop check and line 253, so that
\* the refresh is scheduled with remaining and total both 0.
DotsInit ==
    /\ var_h = Zero2
    /\ var_m \in DotsM
    /\ var_s \in DotsS
    /\ total = ParseTime(var_h, var_m, var_s)
    /\ remaining \in IF total = 0 THEN {0} ELSE 1..total
    /\ running = (total > 0)
    /\ ui_pc = "loop"
    /\ threads = SetToBag({TickThread("t254", 0)})
    /\ queue = <<[cb |-> "refresh", arg |-> remaining]>>
    /\ dialogs = 0
    /\ disp = IF total = 0 THEN IdleDisplay ELSE DotsShown(remaining, total)
    /\ status = IF total = 0 THEN "Idle" ELSE "Running"
    /\ signals = 0
    /\ hitZero = FALSE
    /\ mark = <<>>

\* The scheduled refresh runs.
DotsNext == RefreshUi

DotsSpec == DotsInit /\ [][DotsNext]_vars

C14_Refreshed == queue = <<>>

\* k dots are a nearest whole number to 10 * remaining / total
C14_Nearest(k) ==
    /\ 2 * (k * total - NumDots * remaining) <= total
    /\ 2 * (NumDots * remaining - k * total) <= total

\* k lies exactly half way between two whole numbers of dots
C14_Tie(k) ==
    \/ 2 * (k * total - NumDots * remaining) = total
    \/ 2 * (NumDots * remaining - k * total) = total

\* C14 as stated: after a refresh the number of lit dots is 10 *
\* remaining / total rounded to a nearest whole number when total > 0 and
\* 0 when total = 0, and it is 3 for remaining = 30 and total = 120.
C14_ThirtyOf120LightsThree ==
    C14_Refreshed =>
        /\ total = 0 => disp.lit = 0
        /\ total > 0 => C14_Nearest(disp.lit)
        /\ (remaining = 30 /\ total = 120) => disp.lit = 3

\* C14 as amended: after a refresh the number of lit dots is 10 *
\* remaining / total rounded to the nearest whole number, a value exactly
\* half way going to the even neighbour, when total > 0, and 0 when
\* total = 0; for remaining = 30 and total = 120 it is 2.
C14_TiesLightEvenDots ==
    C14_Refreshed =>
        /\ total = 0 => disp.lit = 0
        /\ total > 0 => /\ C14_Nearest(disp.lit)
                        /\ C14_Tie(disp.lit) => disp.lit % 2 = 0
        /\ (remaining = 30 /\ total = 120) => disp.lit = 2

\* The refresh for 30 of 120 seconds has run and two dots are lit.
C14_Witness ==
    /\ C14_Refreshed
    /\ total = 120
    /\ remaining = 30
    /\ disp.lit = 2

\* ------------------------------------------- countdowns longer than 10 s
\* Seconds typed for a countdown that starts above the urgent threshold
\* (11) and for one that starts below it (2).
UrgentS == {Zero2, <<"2">>, <<"1", "1">>}

\* The user types one of the values into the seconds spinbox while the
\* timer is stopped.
TypeSecondsOf(values) ==
    /\ UserMayAct
    /\ ~running
    /\ \E s \in values :
          /\ s # var_s
          /\ var_s' = s
    /\ UNCHANGED <<timerVars, var_h, var_m, ui_pc, threads, queue, dialogs,
                   disp, histVars>>

TypeSeconds == TypeSecondsOf(UrgentS)

\* The user types seconds, starts and resets; the timing threads and the
\* callbacks run as they do.
UrgentNext ==
    \/ TypeSeconds
    \/ FreshStart
    \/ Reset
    \/ RefreshUi
    \/ OnFinished
    \/ DismissDone
    \/ TickStep

UrgentSpec == Init /\ [][UrgentNext]_vars

\* the urgent presentation: red display and the "Hurry!" status
Urgent(d) == d.fg = "ACCENT3" /\ d.msg = "Hurry"

\* C15: after every refresh of the display with a value r the presentation
\* is urgent if and only if r <= 10; a refresh with r > 10 never leaves the
\* urgent presentation in place.
C15_UrgentIffAtMostTen ==
    [][RefreshUi => (Urgent(disp') <=> Head(queue).arg <= UrgentAt)]_vars

\* -------------------------------------------------- the timer with a clock
\* Time advances in units of one second, the length of the sleep at line
\* 254; the statements of a thread and of a handler take no time.  A
\* thread that falls asleep is at "t254z" until the clock has advanced,
\* then it is at "t254" and wakes before the clock advances again.

\* Seconds typed for a countdown that lasts longer than two seconds.
TimedS == {Zero2, <<"3">>}

TypeTimed == TypeSecondsOf(TimedS)

\* lines 253-254: after(0, self._refresh_ui, self._remaining), then the
\* thread falls asleep for one second
FallAsleep ==
    \E t \in BagToSet(threads) :
        /\ t.pc = "t253"
        /\ Len(queue) < MaxQueue
        /\ queue' = Append(queue, [cb |-> "refresh", arg |-> remaining])
        /\ Goto(t, "t254z", 0)
        /\ UNCHANGED <<timerVars, fieldVars, ui_pc, dialogs, disp, histVars>>

\* One second has elapsed: every thread is in its sleep, and every sleep
\* has now lasted its second.  The value of remaining is noted when the
\* timer is running.
ClockTick ==
    /\ threads # EmptyBag
    /\ \A t \in BagToSet(threads) : t.pc = "t254z"
    /\ threads' = [t \in {TickThread("t254", 0)} |-> AliveCount]
    /\ mark' = IF running THEN <<remaining>> ELSE <<>>
    /\ UNCHANGED <<timerVars, fieldVars, ui_pc, queue, dialogs, disp,
                   status, signals, hitZero>>

TimedNext ==
    \/ TypeTimed
    \/ Pause
    \/ FreshStart
    \/ Resume
    \/ Reset
    \/ RefreshUi
    \/ OnFinished
    \/ DismissDone
    \/ LoopReadRunning
    \/ LoopReadRemaining
    \/ FallAsleep
    \/ WakeReadRunning
    \/ DecrementLoad
    \/ DecrementStore
    \/ ExitReadRunning
    \/ FinishStore
    \/ ScheduleFinished
    \/ ClockTick

TimedSpec == Init /\ [][TimedNext]_vars

\* C16: while the timer is Running, remaining decreases by exactly 1 per
\* elapsed second: when a second ends through which the timer has been
\* running with no user action, remaining is one less than it was when
\* the second began, whatever was done before that second.
C16_OnePerSecond ==
    [][(ClockTick /\ mark # <<>> /\ running)
        => remaining = mark[1] - 1]_vars

\* ------------------------------------------- callbacks and user actions
\* C17: whenever the completion callback _on_finished runs, the timer is
\* not running and remaining = 0, whatever was handled between its
\* scheduling and its running.
C17_FinishedShownWhenStopped ==
    [][OnFinished => (~running /\ remaining = 0)]_vars

\* C18: after a reset and until the next start the display stays in the
\* idle presentation; no refresh and no completion scheduled before the
\* reset is applied after it.
C18_IdleDisplayAfterReset == status = "Idle" => disp = IdleDisplay

\* C19: when the timer is Paused, no timing thread is left and no
\* callback is waiting, the time on the display is remaining.
C19_PausedDisplayShowsRemaining ==
    (status = "Paused" /\ AliveCount = 0 /\ queue = <<>>)
        => disp.text = Fmt(remaining)

\* C20: whenever running is True, at least one timing thread is alive, and
\* not merely about to return after line 259: a thread is left that will
\* decrement remaining or end the countdown.
C20_RunningHasThread ==
    running => \E t \in BagToSet(threads) : t.pc # "t260"

\* The timer has been started again while the thread of the finished
\* countdown has stored False (line 259) and has not returned yet.
C20_Witness ==
    /\ running
    /\ \E t \in BagToSet(threads) : t.pc = "t260"

====
